---- MODULE Spec2Model ----
(***************************************************************************)
(* Model of the Bazel MCP server (src/index.ts): the BazelClient session,  *)
(* the child processes it spawns and the CallTool / ListTools handlers.    *)
(*                                                                         *)
(* Strings are TLA+ strings and template literals are concatenations.      *)
(* An optional value (a field that may be undefined) is the empty tuple    *)
(* when absent and a one-element tuple when present.                       *)
(***************************************************************************)
EXTENDS Integers, Sequences, FiniteSets, TLC

VARIABLES
    bazelPath,        \* BazelClient.bazelPath
    workspacePath,    \* BazelClient.workspacePath
    workspaceConfig,  \* BazelClient.workspaceConfig (optional)
    children,         \* invocations whose child process has not closed yet
    spawned,          \* the spawn(file, args, {cwd}) made by the current step
    reply,            \* the payload the CallTool handler returned in this step
    lastSwitch,       \* newPath of the latest successful setWorkspacePath
    switchRun,        \* trailing successful set_workspace_path calls, same path
    cwds,             \* history: the cwd each child in flight was spawned in
    logPath,          \* the module-level logPath ("" when no file is configured)
    fault,            \* the log call that raised in this step, and its effect
    configInput,      \* what getConfig reads: argv, environment, config file
    serverConfig,     \* what getConfig returned
    capacity,         \* invocations the exploration lets be in flight at once
    settled           \* invocations between the settling of their promise and
                      \* the last of: the handler's return, the child's 'close'

session == <<bazelPath, workspacePath, workspaceConfig>>
\* the variables no request handler and no child event assigns
setup == <<logPath, configInput, serverConfig, capacity>>
vars == <<bazelPath, workspacePath, workspaceConfig, children, spawned, reply,
          lastSwitch, switchRun, cwds, logPath, fault, configInput,
          serverConfig, capacity, settled>>

-----------------------------------------------------------------------------
(* Bounds of the exploration *)

MaxInFlight == 1     \* invocations in flight at once
MaxOutputLen == 11   \* characters a child writes on both streams together
MaxOverlap == 2      \* invocations in flight at once when calls overlap
MaxSettled == 2      \* invocations settled and not yet returned and closed

-----------------------------------------------------------------------------
(* Optional values *)

Undefined == <<>>
Some(v) == <<v>>
IsDefined(o) == o # <<>>
Get(o) == o[1]
\* JavaScript truthiness of an optional string: undefined and "" are falsy
TruthyString(o) == IsDefined(o) /\ Get(o) # ""

-----------------------------------------------------------------------------
(* The file system the server runs on *)

FsDirs == {"/empty", "/ws", "/wsb", "/mod"}
FsFiles == {"/file", "/ws/WORKSPACE", "/wsb/WORKSPACE.bazel", "/mod/MODULE.bazel"}

existsSync(p) == p \in FsDirs \cup FsFiles
pathJoin(dir, name) == dir \o "/" \o name

-----------------------------------------------------------------------------
(* Tool names *)

AdvertisedTools ==
    {"bazel_build_target", "bazel_query_target", "bazel_test_target",
     "bazel_list_targets", "bazel_fetch_dependencies", "bazel_set_workspace_path"}

SpawnCases ==
    {"build_target", "query_target", "test_target", "list_targets",
     "fetch_dependencies"}

SwitchCases == SpawnCases \cup {"set_workspace_path"}

-----------------------------------------------------------------------------
(* Inputs of a tool call *)

TargetLists == {<<>>, <<"//x">>, <<"//x", "//y">>}
Patterns == {"", "deps(//x)"}
ListPaths == {"", "//", "//pkg"}
SwitchPaths == {"", "/nonexistent", "/file", "/empty", "/ws", "/wsb", "/mod"}

\* the additionalArgs the README lets a caller add to a command
PassthroughArgs == <<"--verbose_failures", "--test_output=all">>

NoFields == [targets |-> Undefined, pattern |-> Undefined, path |-> Undefined,
             additionalArgs |-> Undefined]

\* the argument objects a caller sends to each case: the case's field, or none
FieldsFor(case) ==
    {NoFields} \cup
    CASE case \in {"build_target", "test_target", "fetch_dependencies"} ->
             {[NoFields EXCEPT !.targets = Some(t)] : t \in TargetLists}
      [] case = "query_target" ->
             {[NoFields EXCEPT !.pattern = Some(p)] : p \in Patterns}
      [] case = "list_targets" ->
             {[NoFields EXCEPT !.path = Some(q)] : q \in ListPaths}
      [] case = "set_workspace_path" ->
             {[NoFields EXCEPT !.path = Some(q)] : q \in SwitchPaths}

\* the same, and one call of each command that adds additionalArgs
ArgumentsFor(case) ==
    FieldsFor(case) \cup
    CASE case \in {"build_target", "test_target", "fetch_dependencies"} ->
             {[NoFields EXCEPT !.targets = Some(<<"//x">>),
                               !.additionalArgs = Some(PassthroughArgs)]}
      [] case = "query_target" ->
             {[NoFields EXCEPT !.pattern = Some("deps(//x)"),
                               !.additionalArgs = Some(PassthroughArgs)]}
      [] case = "list_targets" ->
             {[NoFields EXCEPT !.path = Some("//pkg"),
                               !.additionalArgs = Some(PassthroughArgs)]}
      [] OTHER -> {}

\* for a name the switch does not know: the field its schema asks
SchemaArguments(name) ==
    CASE name \in {"bazel_build_target", "bazel_test_target",
                   "bazel_fetch_dependencies"} ->
             {[NoFields EXCEPT !.targets = Some(<<"//x">>)]}
      [] name = "bazel_query_target" ->
             {[NoFields EXCEPT !.pattern = Some("deps(//x)")]}
      [] name = "bazel_list_targets" ->
             {[NoFields EXCEPT !.path = Some("//")]}
      [] name = "bazel_set_workspace_path" ->
             {[NoFields EXCEPT !.path = Some("/ws")]}
      [] OTHER -> {}

ToolNames == AdvertisedTools \cup SwitchCases

StdoutChunks == {"partial"}
StderrChunks == {"boom"}
ExitCodes == {0, 1}
ENOENT == -2
LaunchOutcomes == {"ok", "fail"}

-----------------------------------------------------------------------------
(* BazelClient *)

ConfigFlag(config) == "--bazelrc=" \o config

\* a runBazelCommand that pushes the override flag after the subcommand
FullArgsFlagAfterCommand(command, args, config) ==
    IF TruthyString(config)
    THEN <<command>> \o <<ConfigFlag(Get(config))>> \o args
    ELSE <<command>> \o args

\* runBazelCommand: the argument vector handed to spawn
FullArgs(command, args, config) ==
    IF TruthyString(config)
    THEN <<ConfigFlag(Get(config))>> \o <<command>> \o args
    ELSE <<command>> \o args


\* buildTargets / testTargets: the args handed to runBazelCommand
buildTargetsArgs(targets) == targets

testTargetsArgs(targets) == targets

\* queryTarget: the pattern is the sole positional argument
queryTargetArgs(pattern) == <<pattern>>

\* listTargets: the query pattern synthesized from the path
listTargetsArgs(path) == <<path \o "/...">>

\* fetchDependencies: the args handed to runBazelCommand("build", args)
fetchDependenciesArgs(targets) ==
    IF IsDefined(targets) /\ Len(Get(targets)) > 0
    THEN <<"fetch">> \o Get(targets)
    ELSE <<"fetch">> \o <<"//...">>

\* the return policy of each operation, applied to a resolved invocation
buildTargetsResult(stdout, stderr) == stdout \o "\n" \o stderr

\* a queryTarget that returns stdout whatever it holds
queryTargetStdoutOnly(stdout, stderr) == stdout

queryTargetResult(stdout, stderr) == IF stdout # "" THEN stdout ELSE stderr

\* a listTargets that falls back to stderr as queryTarget does
listTargetsStdoutOrStderr(stdout, stderr) ==
    IF stdout # "" THEN stdout ELSE stderr

listTargetsResult(stdout, stderr) == stdout

OperationResult(op, stdout, stderr) ==
    CASE op = "query_target" -> queryTargetResult(stdout, stderr)
      [] op = "list_targets" -> listTargetsResult(stdout, stderr)
      [] OTHER -> buildTargetsResult(stdout, stderr)

\* setWorkspacePath: whether it threw, its message, and the path it leaves
isWorkspace(p) ==
    \/ existsSync(pathJoin(p, "WORKSPACE"))
    \/ existsSync(pathJoin(p, "WORKSPACE.bazel"))
    \/ existsSync(pathJoin(p, "MODULE.bazel"))

NotExistMessage(newPath) == "Workspace path does not exist: " \o newPath

NotWorkspaceMessage(newPath) ==
    "Path does not appear to be a Bazel workspace: " \o newPath

UpdatedMessage(oldPath, newPath) ==
    "Workspace path updated from " \o oldPath \o " to " \o newPath

\* variants of setWorkspacePath with one slip each
setWorkspacePathUnchecked(newPath, oldPath) ==
    IF ~existsSync(newPath)
    THEN [threw |-> TRUE, message |-> NotExistMessage(newPath),
          workspacePath |-> oldPath]
    ELSE [threw |-> FALSE, message |-> UpdatedMessage(oldPath, newPath),
          workspacePath |-> newPath]

setWorkspacePathAssignFirst(newPath, oldPath) ==
    IF ~existsSync(newPath)
    THEN [threw |-> TRUE, message |-> NotExistMessage(newPath),
          workspacePath |-> newPath]
    ELSE IF ~isWorkspace(newPath)
    THEN [threw |-> TRUE, message |-> NotWorkspaceMessage(newPath),
          workspacePath |-> newPath]
    ELSE [threw |-> FALSE, message |-> UpdatedMessage(oldPath, newPath),
          workspacePath |-> newPath]

setWorkspacePathMarkerFirst(newPath, oldPath) ==
    IF ~isWorkspace(newPath)
    THEN [threw |-> TRUE, message |-> NotWorkspaceMessage(newPath),
          workspacePath |-> oldPath]
    ELSE IF ~existsSync(newPath)
    THEN [threw |-> TRUE, message |-> NotExistMessage(newPath),
          workspacePath |-> oldPath]
    ELSE [threw |-> FALSE, message |-> UpdatedMessage(oldPath, newPath),
          workspacePath |-> newPath]

setWorkspacePathNoAssign(newPath, oldPath) ==
    IF ~existsSync(newPath)
    THEN [threw |-> TRUE, message |-> NotExistMessage(newPath),
          workspacePath |-> oldPath]
    ELSE IF ~isWorkspace(newPath)
    THEN [threw |-> TRUE, message |-> NotWorkspaceMessage(newPath),
          workspacePath |-> oldPath]
    ELSE [threw |-> FALSE, message |-> UpdatedMessage(oldPath, newPath),
          workspacePath |-> oldPath]

setWorkspacePathRejectSame(newPath, oldPath) ==
    IF ~existsSync(newPath)
    THEN [threw |-> TRUE, message |-> NotExistMessage(newPath),
          workspacePath |-> oldPath]
    ELSE IF ~isWorkspace(newPath) \/ newPath = oldPath
    THEN [threw |-> TRUE, message |-> NotWorkspaceMessage(newPath),
          workspacePath |-> oldPath]
    ELSE [threw |-> FALSE, message |-> UpdatedMessage(oldPath, newPath),
          workspacePath |-> newPath]

setWorkspacePath(newPath, oldPath) ==
    IF ~existsSync(newPath)
    THEN [threw |-> TRUE, message |-> NotExistMessage(newPath),
          workspacePath |-> oldPath]
    ELSE IF ~isWorkspace(newPath)
    THEN [threw |-> TRUE, message |-> NotWorkspaceMessage(newPath),
          workspacePath |-> oldPath]
    ELSE [threw |-> FALSE, message |-> UpdatedMessage(oldPath, newPath),
          workspacePath |-> newPath]

-----------------------------------------------------------------------------
(* The promise of runBazelCommand: the first resolve or reject settles it *)

Pending == [state |-> "pending", stdout |-> "", stderr |-> "", message |-> ""]

Resolve(promise, stdout, stderr) ==
    IF promise.state = "pending"
    THEN [state |-> "resolved", stdout |-> stdout, stderr |-> stderr,
          message |-> ""]
    ELSE promise

\* a reject that overwrites what the promise has settled to
RejectAgain(promise, message) ==
    [state |-> "rejected", stdout |-> "", stderr |-> "", message |-> message]

Reject(promise, message) ==
    IF promise.state = "pending"
    THEN [state |-> "rejected", stdout |-> "", stderr |-> "",
          message |-> message]
    ELSE promise

ExecErrorMessage(code, stderr) ==
    "Bazel command failed with code " \o ToString(code) \o ": " \o stderr

\* err.message of the 'error' event of a child that could not be started
LaunchErrorMessage(file) == "spawn " \o file \o " ENOENT"

\* a close handler that resolves whatever the exit code
OnCloseIgnoringCode(child, code) ==
    Resolve(child.promise, child.stdout, child.stderr)

\* process.on("close")
OnClose(child, code) ==
    IF code = 0
    THEN Resolve(child.promise, child.stdout, child.stderr)
    ELSE Reject(child.promise, ExecErrorMessage(code, child.stderr))

\* the places of the invocations whose promise has settled
Slots == 1..MaxSettled
NoSlots == [j \in Slots |-> Undefined]

\* an error handler that logs and does not reject
OnErrorLogOnly(child, message) == child.promise

\* process.on("error")
OnError(child, message) == Reject(child.promise, message)

-----------------------------------------------------------------------------
(* The CallTool handler's two payloads *)

JsonError(message) == "{\"error\":\"" \o message \o "\"}"

\* the request of a reply that answers a settled invocation keeps no arguments
Payload(name, arguments, isError, text, error, child) ==
    [name |-> name, arguments |-> arguments, isError |-> isError,
     text |-> text, error |-> error, child |-> child, tools |-> {}]

SuccessPayload(name, arguments, text, child) ==
    Payload(name, arguments, FALSE, text, "", child)

ErrorPayload(name, arguments, message, child) ==
    Payload(name, arguments, TRUE, JsonError(message), message, child)

\* the handler after `await`: the try block's result or the catch block's
SettledPayload(child, promise, code) ==
    LET closed == [op |-> child.op, launch |-> child.launch,
                   emitted |-> child.emitted, observed |-> child.observed,
                   promise |-> promise,
                   stdout |-> child.stdout, stderr |-> child.stderr,
                   code |-> code]
    IN  IF promise.state = "resolved"
        THEN SuccessPayload(child.op, Undefined,
                 OperationResult(child.op, promise.stdout, promise.stderr),
                 Some(closed))
        ELSE ErrorPayload(child.op, Undefined, promise.message, Some(closed))

-----------------------------------------------------------------------------
(* getConfig: command line, environment, configuration file *)

Keys == {"bazelPath", "workspacePath", "workspaceConfig", "logPath"}

\* the command-line flag of each key
Flag ==
    [bazelPath |-> "--bazel_path", workspacePath |-> "--workspace_path",
     workspaceConfig |-> "--workspace_config", logPath |-> "--log_path"]

KeyOfFlag(arg) == CHOOSE key \in Keys : Flag[key] = arg

\* process.cwd()
Cwd == "/empty"

DefaultConfig ==
    [bazelPath |-> Some("bazel"), workspacePath |-> Some(Cwd),
     workspaceConfig |-> Undefined, logPath |-> Some("")]

\* the loop over process.argv.slice(2), from index i (1-based) on
RECURSIVE ParseArgs(_, _, _)
ParseArgs(args, i, cfg) ==
    IF i > Len(args) THEN cfg
    ELSE IF (\E key \in Keys : Flag[key] = args[i]) /\ i + 1 <= Len(args)
    THEN ParseArgs(args, i + 2,
                   [cfg EXCEPT ![KeyOfFlag(args[i])] = Some(args[i + 1])])
    ELSE ParseArgs(args, i + 1, cfg)

\* args.includes(arg)
Includes(args, arg) == \E i \in 1..Len(args) : args[i] = arg

\* "Override with environment variables if set"
EnvOverride(cfg, env) ==
    [key \in Keys |-> IF TruthyString(env[key]) THEN env[key] ELSE cfg[key]]

\* the configuration file, when it exists and parses
FileFill(cfg, args, env, fileConfig) ==
    [key \in Keys |->
        IF /\ fileConfig # Undefined
           /\ ~TruthyString(env[key])
           /\ ~Includes(args, Flag[key])
           /\ TruthyString(Get(fileConfig)[key])
        THEN Get(fileConfig)[key]
        ELSE cfg[key]]

getConfig(args, env, fileConfig) ==
    FileFill(EnvOverride(ParseArgs(args, 1, DefaultConfig), env),
             args, env, fileConfig)

\* what the server may be started with
CommandLines ==
    {<<>>,
     <<"--bazel_path", "/cli/bazel">>,
     <<"--workspace_path", "/ws", "--log_path", "/cli/log">>,
     <<"--workspace_config", "/cli/rc", "--bazel_path", "/cli/bazel">>,
     <<"--bazel_path">>}

NoConfig == [key \in Keys |-> Undefined]

Environments ==
    {[bazelPath |-> b, workspacePath |-> w, workspaceConfig |-> c,
      logPath |-> l] :
        b \in {Undefined, Some("/env/bazel")}, w \in {Undefined, Some("/mod")},
        c \in {Undefined, Some("/env/rc")}, l \in {Undefined, Some("")}}

ConfigFiles ==
    {Undefined,
     Some([NoConfig EXCEPT !.bazelPath = Some("/file/bazel")]),
     Some([bazelPath |-> Some("/file/bazel"), workspacePath |-> Some("/wsb"),
           workspaceConfig |-> Some("/file/rc"), logPath |-> Some("/file/log")])}

-----------------------------------------------------------------------------
(* log(): the append to the log file is made, and can raise, only when a   *)
(* log path is configured.  No call of log() is inside a try block of its  *)
(* own.  The sites: "request" (line 424), "case" (the first line of a      *)
(* case), "command" (191), "chunk" (204, 213), "completion" (220),         *)
(* "failure" (225, 231), "result" (497, 530), "catch" (500).               *)

Raises == IF logPath # "" THEN {FALSE, TRUE} ELSE {FALSE}

\* where the log call that raises in a step can be, "none" for nowhere
Sink(sites) == IF logPath # "" THEN sites \cup {"none"} ELSE {"none"}

\* the message of the error fs.appendFileSync throws
SinkErrorMessage == "EACCES: permission denied, open '" \o logPath \o "'"

NoFault == [site |-> "none", effect |-> "none"]

\* an exception thrown inside an event listener of the child is not caught:
\* the process ends
Alive == fault.effect # "crashed"

\* the end of the CallTool handler.  The try block has come to a result or
\* to a throw (isError); a log call that raised at `site` threw in its
\* place.  "request" is outside the try block, so the handler rejects; every
\* other throw reaches the catch block, whose own log call raises or not.
Outcome(isError, site, catchRaises) ==
    IF site = "request" THEN "rejected"
    ELSE IF site = "none" /\ ~isError THEN "returned"
    ELSE IF catchRaises THEN "rejected"
    ELSE IF site = "none" THEN "returned"
    ELSE "replaced"

\* what the handler returns: the payload, or the sink's error in its place
HandlerReply(payload, outcome) ==
    CASE outcome = "returned" -> Some(payload)
      [] outcome = "replaced" ->
             Some(ErrorPayload(payload.name, payload.arguments,
                               SinkErrorMessage, payload.child))
      [] outcome = "rejected" -> Undefined

HandlerFault(site, outcome) ==
    IF outcome = "returned" THEN NoFault
    ELSE [site |-> IF site = "none" THEN "catch" ELSE site,
          effect |-> IF outcome = "replaced" THEN "payload" ELSE "rejected"]

-----------------------------------------------------------------------------
(* Initial state: main() builds the client from the configuration; the     *)
(* workspace check of main() only logs a warning.                          *)

\* the server is started outside a workspace with no override, or in one
\* with an override
InitialSessions ==
    {[workspacePath |-> "/empty", workspaceConfig |-> Undefined],
     [workspacePath |-> "/ws", workspaceConfig |-> Some("/rc")]}

Init ==
    /\ bazelPath = "bazel"
    /\ \E initial \in InitialSessions :
           /\ workspacePath = initial.workspacePath
           /\ workspaceConfig = initial.workspaceConfig
    /\ children = <<>>
    /\ spawned = Undefined
    /\ reply = Undefined
    /\ lastSwitch = Undefined
    /\ switchRun = 0
    /\ cwds = <<>>
    /\ logPath = ""
    /\ fault = NoFault
    /\ configInput = Undefined
    /\ serverConfig = Undefined
    /\ capacity = MaxInFlight
    /\ settled = NoSlots

-----------------------------------------------------------------------------
(* The CallTool handler, up to its first await or its return *)

\* the handler returns at once: a throw inside the try block, caught
Throw(name, arguments, message) ==
    /\ Alive
    /\ \E site \in Sink(IF arguments # Undefined /\ name \in SwitchCases
                        THEN {"request", "case"} ELSE {"request"}),
          catchRaises \in Raises :
           LET outcome == Outcome(TRUE, site, catchRaises)
           IN  /\ reply' = HandlerReply(ErrorPayload(name, arguments, message,
                                                     Undefined), outcome)
               /\ fault' = HandlerFault(site, outcome)
    /\ spawned' = Undefined
    /\ switchRun' = 0
    /\ UNCHANGED <<bazelPath, workspacePath, workspaceConfig, children,
                   lastSwitch, cwds,
                   setup, settled>>

\* a spawn that leaves the child in the directory of the server process
SpawnOptionsWithoutCwd(path) ==
    [cwd |-> Cwd, stdio |-> <<"ignore", "pipe", "pipe">>]

\* the options runBazelCommand hands to spawn
SpawnOptions(path) == [cwd |-> path, stdio |-> <<"ignore", "pipe", "pipe">>]

\* runBazelCommand up to the registration of the handlers; observed is what
\* the onOutput of the call has been called with.  A log call that raises
\* before the spawn ends the call with no child.
runBazelCommand(name, arguments, command, args, onOutput) ==
    /\ Alive
    /\ Len(children) < capacity
    /\ \E site \in Sink({"request", "case", "command"}),
          catchRaises \in Raises, launch \in LaunchOutcomes :
           IF site = "none"
           THEN /\ spawned' = Some([name |-> name, arguments |-> arguments,
                                    file |-> bazelPath,
                                    args |-> FullArgs(command, args,
                                                      workspaceConfig),
                                    cwd |-> SpawnOptions(workspacePath).cwd])
                /\ children' = Append(children,
                       [op |-> name, launch |-> launch,
                        onOutput |-> onOutput, observed |-> <<>>,
                        emitted |-> <<>>,
                        stdout |-> "", stderr |-> "", promise |-> Pending])
                /\ reply' = Undefined
                /\ fault' = NoFault
           ELSE LET outcome == Outcome(FALSE, site, catchRaises)
                IN  /\ spawned' = Undefined
                    /\ children' = children
                    /\ reply' = HandlerReply(SuccessPayload(name, arguments,
                                                            "", Undefined),
                                             outcome)
                    /\ fault' = HandlerFault(site, outcome)
    /\ switchRun' = 0
    /\ UNCHANGED <<bazelPath, workspacePath, workspaceConfig, lastSwitch,
                   setup, settled>>

NoArguments(name) ==
    Throw(name, Undefined, "No arguments provided")

\* a build_target case that runs the build without looking at the targets
BuildTargetUnvalidated(a) ==
    runBazelCommand("build_target", Some(a), "build",
                    buildTargetsArgs(IF IsDefined(a.targets)
                                     THEN Get(a.targets) ELSE <<>>), Undefined)

BuildTarget(a) ==
    IF ~IsDefined(a.targets) \/ Len(Get(a.targets)) = 0
    THEN Throw("build_target", Some(a), "Missing required argument: targets")
    ELSE runBazelCommand("build_target", Some(a), "build",
                         buildTargetsArgs(Get(a.targets)), Undefined)

QueryTarget(a) ==
    IF ~TruthyString(a.pattern)
    THEN Throw("query_target", Some(a), "Missing required argument: pattern")
    ELSE runBazelCommand("query_target", Some(a), "query",
                         queryTargetArgs(Get(a.pattern)), Undefined)

TestTarget(a) ==
    IF ~IsDefined(a.targets) \/ Len(Get(a.targets)) = 0
    THEN Throw("test_target", Some(a), "Missing required argument: targets")
    ELSE runBazelCommand("test_target", Some(a), "test",
                         testTargetsArgs(Get(a.targets)), Undefined)

ListTargets(a) ==
    IF ~TruthyString(a.path)
    THEN Throw("list_targets", Some(a), "Missing required argument: path")
    ELSE runBazelCommand("list_targets", Some(a), "query",
                         listTargetsArgs(Get(a.path)), Undefined)

FetchDependencies(a) ==
    runBazelCommand("fetch_dependencies", Some(a), "build",
                    fetchDependenciesArgs(a.targets), Undefined)

\* a set_workspace_path case that asks bazel about the new path, in a child
SetWorkspacePathProbing(a) ==
    IF ~TruthyString(a.path)
    THEN Throw("set_workspace_path", Some(a), "Missing required argument: path")
    ELSE runBazelCommand("set_workspace_path", Some(a), "info",
                         <<"workspace">>, Undefined) /\ UNCHANGED cwds

\* setWorkspacePath is reached unless a log call before it raised; the log
\* call after it ("result") is made only when it returned
SetWorkspacePath(a) ==
    IF ~TruthyString(a.path)
    THEN Throw("set_workspace_path", Some(a), "Missing required argument: path")
    ELSE /\ Alive
         /\ \E site \in Sink({"request", "case", "result"}),
               catchRaises \in Raises :
                LET reached == site \notin {"request", "case"}
                    r == setWorkspacePath(Get(a.path), workspacePath)
                    switched == reached /\ ~r.threw
                    payload ==
                        IF r.threw
                        THEN ErrorPayload("set_workspace_path", Some(a),
                                          r.message, Undefined)
                        ELSE SuccessPayload("set_workspace_path", Some(a),
                                            r.message, Undefined)
                    raised == IF site = "result" /\ r.threw
                              THEN "none" ELSE site
                    outcome == Outcome(reached /\ r.threw, raised, catchRaises)
                IN  /\ workspacePath' = IF reached THEN r.workspacePath
                                        ELSE workspacePath
                    /\ reply' = HandlerReply(payload, outcome)
                    /\ fault' = HandlerFault(raised, outcome)
                    /\ lastSwitch' = IF switched THEN a.path ELSE lastSwitch
                    /\ switchRun' = IF ~switched THEN 0
                                    ELSE IF switchRun >= 1 /\ lastSwitch = a.path
                                         THEN 2 ELSE 1
         /\ spawned' = Undefined
         /\ UNCHANGED <<bazelPath, workspaceConfig, children, cwds,
                        setup, settled>>

\* the default case of the switch
UnknownTool(name, a) ==
    /\ name \notin SwitchCases
    /\ Throw(name, Some(a), "Unknown tool: " \o name)

-----------------------------------------------------------------------------
(* The ListTools handler *)

ListToolsResponse == AdvertisedTools

ListTools ==
    /\ Alive
    /\ \E site \in Sink({"request", "result"}) :
           IF site = "none"
           THEN /\ reply' = Some([Payload("tools/list", Undefined, FALSE, "",
                                          "", Undefined)
                                     EXCEPT !.tools = ListToolsResponse])
                /\ fault' = NoFault
           ELSE /\ reply' = Undefined
                /\ fault' = [site |-> site, effect |-> "rejected"]
    /\ spawned' = Undefined
    /\ UNCHANGED <<bazelPath, workspacePath, workspaceConfig, children,
                   lastSwitch, switchRun, cwds,
                   setup, settled>>

-----------------------------------------------------------------------------
(* Events of a child process *)

Remove(seq, i) == SubSeq(seq, 1, i - 1) \o SubSeq(seq, i + 1, Len(seq))

Running(i) == children[i].launch = "ok" /\ children[i].promise.state = "pending"

\* data.toString(): a Buffer decoded as UTF-8, chunk by chunk.  A Buffer is
\* written as the string of its bytes: LeadByte and ContinuationByte are the
\* two bytes of one character, every other byte is the character it shows.
LeadByte == "{"
ContinuationByte == "}"
TwoByteCharacter == "E"
ReplacementCharacter == "?"

RECURSIVE toString(_)
toString(data) ==
    IF data = "" THEN ""
    ELSE LET byte == SubSeq(data, 1, 1)
         IN  IF byte = LeadByte /\ Len(data) >= 2
                               /\ SubSeq(data, 2, 2) = ContinuationByte
             THEN TwoByteCharacter \o toString(SubSeq(data, 3, Len(data)))
             ELSE IF byte \in {LeadByte, ContinuationByte}
             THEN ReplacementCharacter \o toString(SubSeq(data, 2, Len(data)))
             ELSE byte \o toString(SubSeq(data, 2, Len(data)))

\* history of the 'data' events of a child whose call passed an onOutput
Record(child, stream, data) ==
    IF IsDefined(child.onOutput)
    THEN Append(child.emitted, [stream |-> stream, data |-> data])
    ELSE child.emitted

\* if (onOutput) onOutput(chunk)
Forward(child, chunk) ==
    IF IsDefined(child.onOutput)
    THEN Append(child.observed, <<chunk>>) ELSE child.observed

\* process.stdout.on("data"): the chunk is accumulated, then logged, then
\* forwarded
StdoutData(i, data) ==
    /\ Alive
    /\ Running(i)
    /\ Len(children[i].stdout) + Len(children[i].stderr) + Len(data)
           <= MaxOutputLen
    /\ \E site \in Sink({"chunk"}) :
           LET chunk == toString(data)
           IN  /\ children' = [children EXCEPT
                      ![i].stdout = @ \o chunk,
                      ![i].observed = IF site = "none"
                                      THEN Forward(children[i], chunk) ELSE @,
                      ![i].emitted = Record(children[i], "stdout", data)]
               /\ fault' = IF site = "none" THEN NoFault
                           ELSE [site |-> site, effect |-> "crashed"]
    /\ spawned' = Undefined
    /\ reply' = Undefined
    /\ UNCHANGED <<bazelPath, workspacePath, workspaceConfig, lastSwitch,
                   switchRun, cwds,
                   setup, settled>>

\* process.stderr.on("data")
StderrData(i, data) ==
    /\ Alive
    /\ Running(i)
    /\ Len(children[i].stdout) + Len(children[i].stderr) + Len(data)
           <= MaxOutputLen
    /\ \E site \in Sink({"chunk"}) :
           LET chunk == toString(data)
           IN  /\ children' = [children EXCEPT
                      ![i].stderr = @ \o chunk,
                      ![i].observed = IF site = "none"
                                      THEN Forward(children[i], chunk) ELSE @,
                      ![i].emitted = Record(children[i], "stderr", data)]
               /\ fault' = IF site = "none" THEN NoFault
                           ELSE [site |-> site, effect |-> "crashed"]
    /\ spawned' = Undefined
    /\ reply' = Undefined
    /\ UNCHANGED <<bazelPath, workspacePath, workspaceConfig, lastSwitch,
                   switchRun, cwds,
                   setup, settled>>

\* a started child exits: 'close' settles the promise and the handler
\* returns.  The close handler logs before it settles ("completion", and
\* "failure" for a non-zero code); the handler logs after a result.
ChildClose(i, code) ==
    /\ Alive
    /\ Running(i)
    /\ code \in ExitCodes
    /\ \E site \in Sink(IF code = 0 THEN {"completion", "result"}
                        ELSE {"completion", "failure"}),
          catchRaises \in Raises :
           IF site \in {"completion", "failure"}
           THEN /\ reply' = Undefined
                /\ fault' = [site |-> site, effect |-> "crashed"]
           ELSE LET promise == OnClose(children[i], code)
                    outcome == Outcome(promise.state # "resolved", site,
                                       catchRaises)
                IN  /\ reply' = HandlerReply(
                                    SettledPayload(children[i], promise, code),
                                    outcome)
                    /\ fault' = HandlerFault(site, outcome)
    /\ children' = Remove(children, i)
    /\ spawned' = Undefined
    /\ UNCHANGED <<bazelPath, workspacePath, workspaceConfig, lastSwitch,
                   switchRun,
                   setup, settled>>

\* a child that could not be started: Node emits 'error' and then 'close'
\* with the negative errno as its code; the handler returns what the promise
\* settled to.  The error handler logs before it rejects ("failure"); the
\* close handler logs after the handler has returned ("completion").
LaunchFailure(i) ==
    /\ Alive
    /\ children[i].launch = "fail"
    /\ \E site \in Sink({"failure", "completion"}), catchRaises \in Raises :
           LET afterError == OnError(children[i],
                                     LaunchErrorMessage(bazelPath))
               afterClose == OnClose([children[i] EXCEPT
                                          !.promise = afterError], ENOENT)
               outcome == Outcome(afterClose.state # "resolved", "none",
                                  catchRaises)
           IN  IF site = "failure"
               THEN /\ reply' = Undefined
                    /\ fault' = [site |-> site, effect |-> "crashed"]
               ELSE /\ reply' = HandlerReply(
                                    SettledPayload(children[i], afterClose,
                                                   ENOENT), outcome)
                    /\ fault' = IF site = "completion"
                                THEN [site |-> site, effect |-> "crashed"]
                                ELSE HandlerFault("none", outcome)
    /\ children' = Remove(children, i)
    /\ spawned' = Undefined
    /\ UNCHANGED <<bazelPath, workspacePath, workspaceConfig, lastSwitch,
                   switchRun,
                   setup, settled>>

-----------------------------------------------------------------------------

\* Spec keeps no history of the children's cwd
Next ==
    \/ \E name \in SwitchCases : NoArguments(name)
    \/ \E a \in ArgumentsFor("build_target") :
           BuildTarget(a) /\ UNCHANGED cwds
    \/ \E a \in ArgumentsFor("query_target") :
           QueryTarget(a) /\ UNCHANGED cwds
    \/ \E a \in ArgumentsFor("test_target") :
           TestTarget(a) /\ UNCHANGED cwds
    \/ \E a \in ArgumentsFor("list_targets") :
           ListTargets(a) /\ UNCHANGED cwds
    \/ \E a \in ArgumentsFor("fetch_dependencies") :
           FetchDependencies(a) /\ UNCHANGED cwds
    \/ \E a \in ArgumentsFor("set_workspace_path") : SetWorkspacePath(a)
    \/ \E name \in ToolNames : \E a \in SchemaArguments(name) :
           UnknownTool(name, a)
    \/ ListTools
    \/ \E i \in 1..Len(children), data \in StdoutChunks : StdoutData(i, data)
    \/ \E i \in 1..Len(children), data \in StderrChunks : StderrData(i, data)
    \/ \E i \in 1..Len(children), code \in ExitCodes :
           ChildClose(i, code) /\ UNCHANGED cwds
    \/ \E i \in 1..Len(children) : LaunchFailure(i) /\ UNCHANGED cwds

Spec == Init /\ [][Next]_vars

\* the server started with a log path: the same handlers and events, with a
\* log file whose append can raise
InitSink ==
    /\ bazelPath = "bazel"
    /\ workspacePath = "/ws"
    /\ workspaceConfig = Undefined
    /\ children = <<>>
    /\ spawned = Undefined
    /\ reply = Undefined
    /\ lastSwitch = Undefined
    /\ switchRun = 0
    /\ cwds = <<>>
    /\ logPath = "/log"
    /\ fault = NoFault
    /\ configInput = Undefined
    /\ serverConfig = Undefined
    /\ capacity = MaxInFlight
    /\ settled = NoSlots

SpecSink == InitSink /\ [][Next]_vars

-----------------------------------------------------------------------------
(* Overlapping tool calls: up to MaxOverlap invocations in flight, and the *)
(* history of the cwd each of them was spawned in                          *)

InitOverlap ==
    /\ bazelPath = "bazel"
    /\ workspacePath = "/empty"
    /\ workspaceConfig = Undefined
    /\ children = <<>>
    /\ spawned = Undefined
    /\ reply = Undefined
    /\ lastSwitch = Undefined
    /\ switchRun = 0
    /\ cwds = <<>>
    /\ logPath = ""
    /\ fault = NoFault
    /\ configInput = Undefined
    /\ serverConfig = Undefined
    /\ capacity = MaxOverlap
    /\ settled = NoSlots

OverlapTargets == {<<"//x">>}
OverlapPaths == {"/nonexistent", "/ws", "/mod"}

\* the cwd of the child of this step joins the history
Track ==
    cwds' = IF spawned' # Undefined
            THEN Append(cwds, Get(spawned').cwd) ELSE cwds

NextOverlap ==
    \/ \E t \in OverlapTargets :
           BuildTarget([NoFields EXCEPT !.targets = Some(t)]) /\ Track
    \/ \E q \in OverlapPaths :
           SetWorkspacePath([NoFields EXCEPT !.path = Some(q)])
    \/ \E i \in 1..Len(children), data \in StdoutChunks : StdoutData(i, data)
    \/ \E i \in 1..Len(children), code \in ExitCodes :
           ChildClose(i, code) /\ cwds' = Remove(cwds, i)
    \/ \E i \in 1..Len(children) :
           LaunchFailure(i) /\ cwds' = Remove(cwds, i)

SpecOverlap == InitOverlap /\ [][NextOverlap]_vars

-----------------------------------------------------------------------------
(* A caller of the BazelClient that passes an onOutput callback *)

buildTargets(targets, onOutput) ==
    runBazelCommand("build_target",
                    Some([NoFields EXCEPT !.targets = Some(targets)]),
                    "build", buildTargetsArgs(targets), onOutput)

queryTarget(pattern, onOutput) ==
    runBazelCommand("query_target",
                    Some([NoFields EXCEPT !.pattern = Some(pattern)]),
                    "query", queryTargetArgs(pattern), onOutput)

testTargets(targets, onOutput) ==
    runBazelCommand("test_target",
                    Some([NoFields EXCEPT !.targets = Some(targets)]),
                    "test", testTargetsArgs(targets), onOutput)

listTargets(path, onOutput) ==
    runBazelCommand("list_targets",
                    Some([NoFields EXCEPT !.path = Some(path)]),
                    "query", listTargetsArgs(path), onOutput)

fetchDependencies(targets, onOutput) ==
    runBazelCommand("fetch_dependencies",
                    Some([NoFields EXCEPT !.targets = targets]),
                    "build", fetchDependenciesArgs(targets), onOutput)

Observers == {Some("onOutput")}

\* Buffers a child writes: a line, and a line whose two-byte character is cut
\* by the boundary of two reads of the pipe
ObservedStdoutChunks == {"one\n", "tw{", "}o\n"}
ObservedStderrChunks == {"boom"}

NextObserved ==
    \/ \E onOutput \in Observers :
           buildTargets(<<"//x">>, onOutput) /\ UNCHANGED cwds
    \/ \E onOutput \in Observers :
           queryTarget("deps(//x)", onOutput) /\ UNCHANGED cwds
    \/ \E onOutput \in Observers :
           testTargets(<<"//x">>, onOutput) /\ UNCHANGED cwds
    \/ \E onOutput \in Observers :
           listTargets("//pkg", onOutput) /\ UNCHANGED cwds
    \/ \E onOutput \in Observers :
           fetchDependencies(Undefined, onOutput) /\ UNCHANGED cwds
    \/ \E i \in 1..Len(children), data \in ObservedStdoutChunks :
           StdoutData(i, data)
    \/ \E i \in 1..Len(children), data \in ObservedStderrChunks :
           StderrData(i, data)
    \/ \E i \in 1..Len(children), code \in ExitCodes :
           ChildClose(i, code) /\ UNCHANGED cwds
    \/ \E i \in 1..Len(children) : LaunchFailure(i) /\ UNCHANGED cwds

SpecObserved == Init /\ [][NextObserved]_vars

-----------------------------------------------------------------------------
(* The events of a child and the return of the handler, one step each: the *)
(* 'error' and 'close' listeners settle the promise, and the handler, which *)
(* awaits it, returns in a later turn of the microtask queue.  A child     *)
(* that could not be started emits 'error' and then 'close'; the handler   *)
(* may return before or after that 'close'.                                *)

\* the first slot that is free
Free(j) ==
    /\ settled[j] = Undefined
    /\ \A k \in 1..(j - 1) : settled[k] # Undefined

\* an invocation leaves the slot once it has both returned and closed
Leave(entry) ==
    IF entry.returned /\ entry.closed THEN Undefined ELSE Some(entry)

\* process.on("error") for a child that could not be started: the listener
\* logs the failure and rejects
ErrorEvent(i, j) ==
    /\ Alive
    /\ children[i].launch = "fail"
    /\ Free(j)
    /\ \E site \in Sink({"failure"}) :
           /\ settled' = [settled EXCEPT ![j] =
                  Some([child |-> children[i],
                        promise |-> OnError(children[i],
                                            LaunchErrorMessage(bazelPath)),
                        code |-> ENOENT,
                        closed |-> FALSE, returned |-> FALSE])]
           /\ fault' = IF site = "none" THEN NoFault
                       ELSE [site |-> site, effect |-> "crashed"]
    /\ children' = Remove(children, i)
    /\ spawned' = Undefined
    /\ reply' = Undefined
    /\ UNCHANGED <<bazelPath, workspacePath, workspaceConfig, lastSwitch,
                   switchRun, cwds, setup>>

\* process.on("close") for a child that ran: the listener logs the exit code
\* and resolves or rejects
CloseEvent(i, j, code) ==
    /\ Alive
    /\ Running(i)
    /\ code \in ExitCodes
    /\ Free(j)
    /\ \E site \in Sink(IF code = 0 THEN {"completion"}
                        ELSE {"completion", "failure"}) :
           /\ settled' = [settled EXCEPT ![j] =
                  Some([child |-> children[i],
                        promise |-> OnClose(children[i], code),
                        code |-> code,
                        closed |-> TRUE, returned |-> FALSE])]
           /\ fault' = IF site = "none" THEN NoFault
                       ELSE [site |-> site, effect |-> "crashed"]
    /\ children' = Remove(children, i)
    /\ spawned' = Undefined
    /\ reply' = Undefined
    /\ UNCHANGED <<bazelPath, workspacePath, workspaceConfig, lastSwitch,
                   switchRun, cwds, setup>>

\* process.on("close") after 'error': the listener logs the code, which is
\* not 0, and calls reject on the promise the error listener has settled
LateClose(j) ==
    /\ Alive
    /\ settled[j] # Undefined
    /\ ~Get(settled[j]).closed
    /\ \E site \in Sink({"completion", "failure"}) :
           LET entry == Get(settled[j])
               promise == OnClose([entry.child EXCEPT
                                       !.promise = entry.promise], entry.code)
           IN  /\ settled' = [settled EXCEPT ![j] =
                      Leave([entry EXCEPT !.promise = promise,
                                          !.closed = TRUE])]
               /\ fault' = IF site = "none" THEN NoFault
                           ELSE [site |-> site, effect |-> "crashed"]
    /\ spawned' = Undefined
    /\ reply' = Undefined
    /\ UNCHANGED <<bazelPath, workspacePath, workspaceConfig, children,
                   lastSwitch, switchRun, cwds, setup>>

\* the handler resumes after its await: the try block's result, or the catch
\* block's payload when the promise was rejected
Return(j) ==
    /\ Alive
    /\ settled[j] # Undefined
    /\ ~Get(settled[j]).returned
    /\ \E site \in Sink(IF Get(settled[j]).promise.state = "resolved"
                        THEN {"result"} ELSE {}),
          catchRaises \in Raises :
           LET entry == Get(settled[j])
               outcome == Outcome(entry.promise.state # "resolved", site,
                                  catchRaises)
           IN  /\ reply' = HandlerReply(
                               SettledPayload(entry.child, entry.promise,
                                              entry.code), outcome)
               /\ fault' = HandlerFault(site, outcome)
               /\ settled' = [settled EXCEPT ![j] =
                      Leave([entry EXCEPT !.returned = TRUE])]
    /\ spawned' = Undefined
    /\ UNCHANGED <<bazelPath, workspacePath, workspaceConfig, children,
                   lastSwitch, switchRun, cwds, setup>>

InitSettle ==
    /\ bazelPath = "bazel"
    /\ workspacePath = "/ws"
    /\ workspaceConfig = Undefined
    /\ children = <<>>
    /\ spawned = Undefined
    /\ reply = Undefined
    /\ lastSwitch = Undefined
    /\ switchRun = 0
    /\ cwds = <<>>
    /\ logPath = ""
    /\ fault = NoFault
    /\ configInput = Undefined
    /\ serverConfig = Undefined
    /\ capacity = MaxInFlight
    /\ settled = NoSlots

SettleTargets == {<<"//x">>}

\* each child writes at most one chunk to stderr before it exits
NextSettle ==
    \/ \E t \in SettleTargets :
           BuildTarget([NoFields EXCEPT !.targets = Some(t)])
           /\ UNCHANGED cwds
    \/ \E i \in 1..Len(children), data \in StderrChunks :
           children[i].stderr = "" /\ StderrData(i, data)
    \/ \E i \in 1..Len(children), j \in Slots : ErrorEvent(i, j)
    \/ \E i \in 1..Len(children), j \in Slots, code \in ExitCodes :
           CloseEvent(i, j, code)
    \/ \E j \in Slots : LateClose(j)
    \/ \E j \in Slots : Return(j)

\* the microtask queue is drained after every event: a handler whose promise
\* has settled resumes
SpecSettle ==
    InitSettle /\ [][NextSettle]_vars /\ \A j \in Slots : WF_vars(Return(j))

-----------------------------------------------------------------------------
(* Start-up: main() reads the configuration and builds the client *)

\* the process has been started and main() has not run
InitStartup ==
    /\ configInput \in {Some([args |-> a, env |-> e, fileConfig |-> f]) :
                            a \in CommandLines, e \in Environments,
                            f \in ConfigFiles}
    /\ serverConfig = Undefined
    /\ bazelPath = ""
    /\ workspacePath = ""
    /\ workspaceConfig = Undefined
    /\ logPath = ""
    /\ children = <<>>
    /\ spawned = Undefined
    /\ reply = Undefined
    /\ lastSwitch = Undefined
    /\ switchRun = 0
    /\ cwds = <<>>
    /\ fault = NoFault
    /\ capacity = MaxInFlight
    /\ settled = NoSlots

\* main() up to the construction of the BazelClient
main ==
    /\ serverConfig = Undefined
    /\ configInput # Undefined
    /\ LET in == Get(configInput)
           cfg == getConfig(in.args, in.env, in.fileConfig)
       IN  /\ serverConfig' = Some(cfg)
           /\ logPath' = Get(cfg.logPath)
           /\ bazelPath' = Get(cfg.bazelPath)
           /\ workspacePath' = Get(cfg.workspacePath)
           /\ workspaceConfig' = cfg.workspaceConfig
    /\ UNCHANGED <<children, spawned, reply, lastSwitch, switchRun, cwds,
                   fault, configInput, capacity, settled>>

NextStartup == main

SpecStartup == InitStartup /\ [][NextStartup]_vars

-----------------------------------------------------------------------------
(* Vocabulary of the properties *)

Markers == {"WORKSPACE", "WORKSPACE.bazel", "MODULE.bazel"}

\* some marker file lies directly under directory p
HasMarker(p) == \E m \in Markers : (p \o "/" \o m) \in FsFiles

\* t occurs in s
Contains(s, t) ==
    \E i \in 1..(Len(s) + 1 - Len(t)) : SubSeq(s, i, i + Len(t) - 1) = t

\* the handler returned in this step without awaiting a child
RepliedAtOnce(name) ==
    /\ reply # Undefined
    /\ Get(reply).name = name
    /\ Get(reply).child = Undefined

\* this step returned the answer of set_workspace_path for a non-empty path
SwitchReplied ==
    /\ RepliedAtOnce("set_workspace_path")
    /\ Get(reply).arguments # Undefined
    /\ TruthyString(Get(Get(reply).arguments).path)

SwitchRepliedPath == Get(Get(Get(reply).arguments).path)

\* this step spawned the child of the named case
Spawned(name) == spawned # Undefined /\ Get(spawned).name = name

SpawnedTargets == Get(Get(spawned).arguments).targets

\* the arguments satisfy the input schema advertised for the tool
ValidArguments(name, a) ==
    CASE name \in {"bazel_build_target", "bazel_test_target"} ->
             IsDefined(a.targets) /\ Get(a.targets) # <<>>
      [] name = "bazel_query_target" -> TruthyString(a.pattern)
      [] name \in {"bazel_list_targets", "bazel_set_workspace_path"} ->
             TruthyString(a.path)
      [] OTHER -> TRUE

\* the field each case requires of its arguments
RequiredCases ==
    {"build_target", "test_target", "query_target", "list_targets",
     "set_workspace_path"}

\* the field the case requires is missing from the request or empty
MissingOrEmpty(name, arguments) ==
    \/ arguments = Undefined
    \/ LET a == Get(arguments)
       IN  CASE name \in {"build_target", "test_target"} ->
                    a.targets = Undefined \/ Get(a.targets) = <<>>
             [] name = "query_target" ->
                    a.pattern = Undefined \/ Get(a.pattern) = ""
             [] name \in {"list_targets", "set_workspace_path"} ->
                    a.path = Undefined \/ Get(a.path) = ""

\* the argument vector of the spawn of this step, the override flag aside
Positional ==
    LET args == Get(spawned).args
    IN  IF workspaceConfig = Undefined THEN args
        ELSE SubSeq(args, 2, Len(args))

\* this step returned the result of an invocation of the named case that
\* resolved
Resolved(name) ==
    /\ reply # Undefined
    /\ Get(reply).name = name
    /\ Get(reply).child # Undefined
    /\ ~Get(reply).isError

ClosedChild == Get(Get(reply).child)

\* what the child wrote to one stream: the bytes of its 'data' events, in
\* order
RECURSIVE StreamBytes(_, _)
StreamBytes(emitted, stream) ==
    IF emitted = <<>> THEN ""
    ELSE (IF Head(emitted).stream = stream THEN Head(emitted).data ELSE "")
         \o StreamBytes(Tail(emitted), stream)

\* one call per 'data' event, in the order of the events
OneCallPerChunk(emitted) ==
    [k \in 1..Len(emitted) |-> <<toString(emitted[k].data)>>]

-----------------------------------------------------------------------------
(* C1: a buildTargets call with a non-empty target list T is never turned  *)
(* away and spawns exactly one child, whose argument vector is             *)
(* ["build", ...T] without a config override and                           *)
(* ["--bazelrc=<override>", "build", ...T] with one.                       *)
C1_BuildArgv ==
    /\ Spawned("build_target") =>
         /\ IsDefined(SpawnedTargets) /\ Get(SpawnedTargets) # <<>>
         /\ Get(spawned).file = bazelPath
         /\ Get(spawned).args =
              IF workspaceConfig = Undefined
              THEN <<"build">> \o Get(SpawnedTargets)
              ELSE <<"--bazelrc=" \o Get(workspaceConfig), "build">>
                       \o Get(SpawnedTargets)
         /\ children # <<>>
         /\ children[Len(children)].op = "build_target"
         /\ children[Len(children)].promise = Pending
    /\ RepliedAtOnce("build_target") /\ Get(reply).arguments # Undefined =>
         LET targets == Get(Get(reply).arguments).targets
         IN  ~IsDefined(targets) \/ Get(targets) = <<>>

C1_Witness ==
    /\ Spawned("build_target")
    /\ workspaceConfig # Undefined
    /\ Len(Get(SpawnedTargets)) = 2

(* C2: fetchDependencies spawns ["build", "//..."] for an empty or absent   *)
(* target list and ["build", ...T] for a non-empty T (the override flag    *)
(* aside), with no other positional argument.                              *)
C2_FetchArgv ==
    Spawned("fetch_dependencies") =>
        LET args == Get(spawned).args
            positional == IF workspaceConfig = Undefined THEN args
                          ELSE SubSeq(args, 2, Len(args))
        IN  positional =
              IF IsDefined(SpawnedTargets) /\ Get(SpawnedTargets) # <<>>
              THEN <<"build">> \o Get(SpawnedTargets)
              ELSE <<"build", "//...">>

(* C3: a call of a tool name that ListTools advertises, with arguments its *)
(* schema accepts, never ends in the "Unknown tool" failure payload.       *)
C3_AdvertisedDispatched ==
    \A name \in ListToolsResponse :
        (/\ RepliedAtOnce(name)
         /\ Get(reply).arguments # Undefined
         /\ ValidArguments(name, Get(Get(reply).arguments)))
        => ~(Get(reply).isError /\ Contains(Get(reply).text, "Unknown tool"))

(* C4 as stated: whenever a child is spawned, its cwd is an existing       *)
(* directory holding at least one of the three workspace markers.          *)
C4_SpawnCwdIsWorkspace ==
    spawned # Undefined =>
        Get(spawned).cwd \in FsDirs /\ HasMarker(Get(spawned).cwd)

(* C4 amended: once a switch-workspace call has succeeded, whenever a      *)
(* child is spawned its cwd is an existing directory holding at least one  *)
(* of the three workspace markers.                                         *)
C4_SpawnCwdAfterSwitch ==
    spawned # Undefined /\ lastSwitch # Undefined =>
        Get(spawned).cwd \in FsDirs /\ HasMarker(Get(spawned).cwd)

C4_Witness ==
    /\ spawned # Undefined
    /\ lastSwitch # Undefined
    /\ Get(spawned).cwd = "/wsb"

(* C5: a switch-workspace call that fails validation leaves                *)
(* workingDirectory, binaryPath and configOverridePath as they were.       *)
C5_FailedSwitchKeepsSession ==
    [][SwitchReplied' /\ Get(reply').isError => session' = session]_vars

C5_Witness ==
    /\ SwitchReplied
    /\ Get(reply).isError
    /\ SwitchRepliedPath = "/empty"
    /\ lastSwitch # Undefined

(* C6 as stated: switchTo fails with "does not exist" for every path that  *)
(* is not a directory, a regular file included, and with "not a workspace" *)
(* only for an existing directory without any marker.                      *)
C6_NotDirectoryIsNotExist ==
    SwitchReplied =>
        /\ SwitchRepliedPath \notin FsDirs =>
             Get(reply).error = "Workspace path does not exist: "
                                    \o SwitchRepliedPath
        /\ Contains(Get(reply).error, "does not appear to be a Bazel workspace")
             => SwitchRepliedPath \in FsDirs /\ ~HasMarker(SwitchRepliedPath)

(* C6 amended: switchTo fails with "does not exist" exactly for a path     *)
(* that does not exist, and with "not a workspace" exactly for a path that *)
(* exists and has no marker directly under it, a regular file included.    *)
C6_NotExistIffMissing ==
    SwitchReplied =>
        LET p == SwitchRepliedPath
            exists == p \in FsDirs \cup FsFiles
        IN  /\ Get(reply).error = "Workspace path does not exist: " \o p
                 <=> ~exists
            /\ Get(reply).error
                    = "Path does not appear to be a Bazel workspace: " \o p
                 <=> exists /\ ~HasMarker(p)

C6_Witness ==
    /\ SwitchReplied
    /\ SwitchRepliedPath = "/file"
    /\ Contains(Get(reply).error, "does not appear to be a Bazel workspace")

(* C7: switchTo(newPath) succeeds whenever newPath exists with a marker    *)
(* directly under it; workingDirectory becomes newPath, the returned text  *)
(* names the old and the new path, and every child spawned from then to    *)
(* the next successful switch has cwd = newPath.                           *)
C7_SwitchThenCwd ==
    [][/\ SwitchReplied' /\ HasMarker(Get(Get(Get(reply').arguments).path)) =>
            LET newPath == Get(Get(Get(reply').arguments).path)
            IN  /\ ~Get(reply').isError
                /\ workspacePath' = newPath
                /\ Get(reply').text = "Workspace path updated from "
                                          \o workspacePath \o " to " \o newPath
       /\ spawned' # Undefined /\ lastSwitch' # Undefined =>
            Get(spawned').cwd = Get(lastSwitch')
      ]_vars

C7_Witness ==
    /\ spawned # Undefined
    /\ lastSwitch = Some("/mod")
    /\ Get(spawned).cwd = "/mod"

(* C8: switchWorkspace(validPath) called twice in a row succeeds both      *)
(* times, and the session after the second call equals the session after   *)
(* the first.                                                              *)
C8_SwitchTwice ==
    [][(/\ switchRun >= 1
        /\ SwitchReplied'
        /\ Get(Get(reply').arguments).path = lastSwitch)
       => ~Get(reply').isError /\ session' = session]_vars

C8_Witness ==
    /\ switchRun = 2
    /\ SwitchReplied
    /\ ~Get(reply).isError
    /\ workspacePath = "/mod"

(* C9: when the child exits with a nonzero code the invocation fails, the  *)
(* error carries the exit code and the whole accumulated stderr and none   *)
(* of the accumulated stdout; it never resolves.                           *)
C9_NonzeroExitFails ==
    (/\ reply # Undefined
     /\ Get(reply).child # Undefined
     /\ Get(Get(reply).child).launch = "ok"
     /\ Get(Get(reply).child).code # 0)
    => LET child == Get(Get(reply).child)
       IN  /\ Get(reply).isError
           /\ Contains(Get(reply).error, ToString(child.code))
           /\ Contains(Get(reply).error, child.stderr)
           /\ child.stdout # "" => ~Contains(Get(reply).text, child.stdout)

C9_Witness ==
    /\ reply # Undefined
    /\ Get(reply).child # Undefined
    /\ Get(Get(reply).child).code = 1
    /\ Get(Get(reply).child).stdout = "partial"
    /\ Get(Get(reply).child).stderr = "boom"

(* C10: when the child fails to start the invocation fails with the launch *)
(* error, which carries the failure description of the operating system,   *)
(* and never with the "Bazel command failed with code" execution error.    *)
C10_LaunchFailureIsLaunchError ==
    (/\ reply # Undefined
     /\ Get(reply).child # Undefined
     /\ Get(Get(reply).child).launch = "fail")
    => /\ Get(reply).isError
       /\ Get(reply).error = "spawn " \o bazelPath \o " ENOENT"
       /\ ~Contains(Get(reply).text, "Bazel command failed with code")

C10_Witness ==
    /\ reply # Undefined
    /\ Get(reply).child # Undefined
    /\ Get(Get(reply).child).launch = "fail"
    /\ Get(reply).name = "query_target"

(* C12: queryTarget returns the accumulated stdout when it is non-empty    *)
(* and the accumulated stderr only when stdout is empty; the result is     *)
(* never empty when either stream is non-empty.                            *)
C12_QueryStdoutElseStderr ==
    Resolved("query_target") =>
        /\ Get(reply).text = IF ClosedChild.stdout # ""
                             THEN ClosedChild.stdout ELSE ClosedChild.stderr
        /\ (ClosedChild.stdout # "" \/ ClosedChild.stderr # "")
               => Get(reply).text # ""

C12_Witness ==
    /\ Resolved("query_target")
    /\ ClosedChild.stdout = ""
    /\ ClosedChild.stderr = "boom"
    /\ Get(reply).text = "boom"

(* C13: listTargets(path), "//" included, spawns exactly one child, whose  *)
(* subcommand is query and whose single positional argument is the path    *)
(* followed by "/...", and returns the accumulated stdout alone.           *)
C13_ListTargets ==
    [][ /\ Spawned("list_targets")' =>
              /\ Len(children') = Len(children) + 1
              /\ Positional' =
                   <<"query", Get(Get(Get(spawned').arguments).path) \o "/...">>
        /\ Resolved("list_targets")' =>
              /\ Get(reply').text = ClosedChild'.stdout
              /\ Len(children') = Len(children) - 1 ]_vars

C13_Witness ==
    /\ Resolved("list_targets")
    /\ ClosedChild.stdout = ""
    /\ ClosedChild.stderr = "boom"
    /\ Get(reply).text = ""

(* C17: a tool call whose required field is missing or empty (targets for  *)
(* build and test, pattern for query, path for list-targets and            *)
(* switch-workspace) is answered with a failure payload before any session *)
(* operation runs: no child is spawned and the session is unchanged.       *)
C17_MissingFieldRejected ==
    [][ \A name \in RequiredCases :
          /\ (RepliedAtOnce(name)' /\ MissingOrEmpty(name, Get(reply').arguments))
                 => /\ Get(reply').isError
                    /\ spawned' = Undefined
                    /\ children' = children
                    /\ session' = session
          /\ Spawned(name)' => ~MissingOrEmpty(name, Get(spawned').arguments)
      ]_vars

C17_Witness ==
    /\ RepliedAtOnce("build_target")
    /\ Get(reply).arguments # Undefined
    /\ Get(Get(reply).arguments).targets = Some(<<>>)
    /\ Get(reply).error = "Missing required argument: targets"
    /\ children # <<>>

(* C18: every operation except switch-workspace takes optional extra       *)
(* passthrough arguments, which appear verbatim and in order in the        *)
(* child's argument vector after the operation's own arguments.            *)
C18_PassthroughAppended ==
    (/\ spawned # Undefined
     /\ Get(Get(spawned).arguments).additionalArgs # Undefined)
    => LET extra == Get(Get(Get(spawned).arguments).additionalArgs)
           args == Get(spawned).args
       IN  /\ Len(args) > Len(extra)
           /\ SubSeq(args, Len(args) - Len(extra) + 1, Len(args)) = extra

(* C20: listing every target through listTargets("//") issues the query    *)
(* pattern "//...", with no doubled separator.                             *)
C20_ListEverything ==
    (/\ Spawned("list_targets")
     /\ Get(Get(spawned).arguments).path = Some("//"))
    => Positional = <<"query", "//...">>

\* what each source gives for a key of the configuration
CliValue(key) ==
    LET args == Get(configInput).args
    IN  IF \E i \in 1..(Len(args) - 1) : args[i] = Flag[key]
        THEN Some(args[1 + CHOOSE i \in 1..(Len(args) - 1) :
                             args[i] = Flag[key]])
        ELSE Undefined

EnvValue(key) ==
    IF TruthyString(Get(configInput).env[key])
    THEN Get(configInput).env[key] ELSE Undefined

FileValue(key) ==
    LET fileConfig == Get(configInput).fileConfig
    IN  IF fileConfig # Undefined /\ TruthyString(Get(fileConfig)[key])
        THEN Get(fileConfig)[key] ELSE Undefined

(* C19: for every key getConfig returns the command-line value when one is *)
(* given, else the environment value, else the configuration file's value, *)
(* else the default: a command-line value is never overridden by the       *)
(* environment or by the file.                                             *)
C19_CommandLineFirst ==
    serverConfig # Undefined =>
        \A key \in Keys :
            Get(serverConfig)[key] =
                IF CliValue(key) # Undefined THEN CliValue(key)
                ELSE IF EnvValue(key) # Undefined THEN EnvValue(key)
                ELSE IF FileValue(key) # Undefined THEN FileValue(key)
                ELSE DefaultConfig[key]

(* C11: for any chunks a child writes to stdout and stderr, the observer   *)
(* supplied with the call is called exactly once per chunk, in the order   *)
(* of arrival, and when the invocation resolves the accumulated stdout and *)
(* stderr are the in-order concatenations of the chunks of their stream,   *)
(* with nothing dropped or truncated.                                      *)
C11_ObserverAndAccumulation ==
    (reply # Undefined /\ Get(reply).child # Undefined) =>
        /\ ClosedChild.observed = OneCallPerChunk(ClosedChild.emitted)
        /\ ClosedChild.promise.state = "resolved" =>
               /\ ClosedChild.promise.stdout =
                      toString(StreamBytes(ClosedChild.emitted, "stdout"))
               /\ ClosedChild.promise.stderr =
                      toString(StreamBytes(ClosedChild.emitted, "stderr"))

(* C14: the CallTool handler never throws or rejects: for every request,   *)
(* every child outcome and every failure of the logging sink it returns    *)
(* one of the two payloads, the operation's result as text or an error     *)
(* description.                                                            *)
C14_HandlerAlwaysReturns ==
    /\ fault.effect \notin {"rejected", "crashed"}
    /\ reply # Undefined =>
           \/ ~Get(reply).isError /\ Get(reply).error = ""
           \/ /\ Get(reply).isError
              /\ Get(reply).error # ""
              /\ Get(reply).text = JsonError(Get(reply).error)

\* the log calls of runBazelCommand: the command line, a chunk, the exit
\* code, the failure message
RunSites == {"command", "chunk", "completion", "failure"}

(* C15: a failure of the logging sink while runBazelCommand logs the       *)
(* command line, mirrors a chunk, logs the completion or logs the failure  *)
(* never changes the outcome of the invocation: the child is still         *)
(* spawned, the call still returns what it would with a working sink, and  *)
(* the sink's error never takes the place of the original error.           *)
C15_SinkFailureHarmless ==
    fault.site \in RunSites =>
        /\ fault.site = "command" => spawned # Undefined
        /\ fault.effect # "crashed"
        /\ reply # Undefined => Get(reply).error # SinkErrorMessage

\* the values workingDirectory is ever given in full
WholePaths == {"/empty"} \cup {q \in OverlapPaths : q \in FsDirs /\ HasMarker(q)}

(* C16: with overlapping tool calls each invocation spawns its own child,  *)
(* beside the children in flight, whose cwd is the whole value of the      *)
(* workspace path at the instant of the spawn; a switch of the workspace   *)
(* path that completes while children are in flight changes neither their  *)
(* cwd nor what they have produced, and a child spawned after the switch   *)
(* has the new path as its cwd.                                            *)
C16_OverlapCwd ==
    [][ /\ spawned' # Undefined =>
              /\ children' = Append(children, children'[Len(children')])
              /\ cwds' = Append(cwds, workspacePath)
              /\ workspacePath \in WholePaths
              /\ lastSwitch # Undefined => cwds'[Len(cwds')] = Get(lastSwitch)
        /\ workspacePath' # workspacePath =>
              /\ children' = children
              /\ cwds' = cwds
        /\ (reply' # Undefined /\ Get(reply').child # Undefined) =>
              \E i \in 1..Len(children) :
                  /\ children' = Remove(children, i)
                  /\ cwds' = Remove(cwds, i)
                  /\ ClosedChild'.stdout = children[i].stdout
                  /\ ClosedChild'.stderr = children[i].stderr
        /\ Len(cwds') = Len(children') ]_vars

C16_Witness ==
    /\ Len(children) = 2
    /\ cwds = <<"/empty", "/ws">>
    /\ workspacePath = "/mod"
    /\ children[1].stdout = "partial"

\* the invocations whose observer calls can be inspected: those in flight and
\* the one that has just closed
Observed ==
    {children[i] : i \in 1..Len(children)} \cup
    (IF reply # Undefined /\ Get(reply).child # Undefined
     THEN {ClosedChild} ELSE {})

(* C21: every chunk forwarded to the observer is delivered together with a *)
(* tag naming its stream of origin: each call of the observer has the text *)
(* and a tag, stdout for a chunk of stdout and stderr for a chunk of        *)
(* stderr.                                                                  *)
C21_ChunkTagged ==
    \A child \in Observed :
        \A k \in 1..Len(child.observed) :
            /\ Len(child.observed[k]) = 2
            /\ child.observed[k][2] = child.emitted[k].stream

\* the request reached its case with the field the case requires
Validated(name, arguments) ==
    /\ arguments # Undefined
    /\ name \in RequiredCases => ~MissingOrEmpty(name, arguments)

(* C22: a switch-workspace call never spawns a child, whether it passes    *)
(* validation or not, and every step spawns exactly one child if it is a   *)
(* validated build, query, test, list-targets or fetch-dependencies call   *)
(* and none otherwise, so that over any sequence of tool calls the number  *)
(* of children spawned is the number of such calls.                        *)
C22_SpawnsAreValidatedCalls ==
    [][ /\ RepliedAtOnce("set_workspace_path")' =>
              /\ spawned' = Undefined
              /\ children' = children
        /\ spawned' # Undefined =>
              /\ Get(spawned').name \in SpawnCases
              /\ Validated(Get(spawned').name, Get(spawned').arguments)
              /\ Len(children') = Len(children) + 1
              /\ SubSeq(children', 1, Len(children)) = children
        /\ spawned' = Undefined => Len(children') <= Len(children)
        /\ \A name \in SpawnCases :
              RepliedAtOnce(name)' =>
                  ~Validated(name, Get(reply').arguments)
      ]_vars

C22_Witness ==
    /\ SwitchReplied
    /\ ~Get(reply).isError
    /\ workspacePath = "/mod"
    /\ Len(children) = 1
    /\ children[1].op = "test_target"
    /\ children[1].stdout # ""

\* the invocation in slot j has settled and its handler has not returned
Awaited(j) == settled[j] # Undefined /\ ~Get(settled[j]).returned

(* C23: each invocation settles exactly once: the first of the child's     *)
(* 'close' and 'error' events fixes the outcome and a later event for the  *)
(* same child does not change it; the handler returns one payload for it,  *)
(* which carries that outcome; and once the child has closed or failed to  *)
(* start the handler eventually returns: no invocation stays pending.      *)
C23_SettlesOnceAndReturns ==
    /\ [](\A j \in Slots :
             settled[j] # Undefined =>
                 Get(settled[j]).promise.state \in {"resolved", "rejected"})
    /\ [][
            /\ \A j \in Slots :
                (settled[j] # Undefined /\ settled'[j] # Undefined) =>
                    /\ Get(settled'[j]).promise = Get(settled[j]).promise
                    /\ Get(settled'[j]).child = Get(settled[j]).child
                    /\ (Get(settled[j]).returned =>
                            Get(settled'[j]).returned)
            /\ (reply' # Undefined /\ Get(reply').child # Undefined) =>
                  \E j \in Slots :
                      /\ Awaited(j)
                      /\ ~Awaited(j)'
                      /\ ClosedChild'.promise = Get(settled[j]).promise
                      /\ Get(reply').isError =
                             (Get(settled[j]).promise.state = "rejected")
                      /\ Get(reply').error = Get(settled[j]).promise.message
            /\ \A j \in Slots :
                  (Awaited(j) /\ ~Awaited(j)') =>
                      (reply' # Undefined /\ Get(reply').child # Undefined)
          ]_vars
    /\ \A j \in Slots : Awaited(j) ~> ~Awaited(j)

\* a child that could not be started has emitted 'error' and then 'close',
\* and the handler returns the launch error
C23_Witness ==
    /\ reply # Undefined
    /\ Get(reply).child # Undefined
    /\ ClosedChild.launch = "fail"
    /\ ClosedChild.promise.message = LaunchErrorMessage(bazelPath)
    /\ settled = NoSlots

====
